---- MODULE Spec2Model ----
(***************************************************************************)
(* Model of src/src/extract.py: PokerHandsExtractor.                      *)
(*                                                                         *)
(* Spec      one call of _extract_single_group, one step per statement    *)
(*           group of the method; the archive content (member kinds and   *)
(*           the lines of the hdb, hroster and pdb.<player> streams) is   *)
(*           chosen by the environment when the code reads it.            *)
(* SpecIter  __iter__ of one extractor, iterated several times: the cache  *)
(*           replay, the pool of workers behind pool.imap, the yields and  *)
(*           the save of the output file. The archive and what each group  *)
(*           extracts to are fixed when the run starts.                    *)
(*                                                                         *)
(* Strings the code takes apart (the group name) are sequences of tokens. *)
(* Python's None is the string "None".                                    *)
(***************************************************************************)
EXTENDS Integers, Sequences, FiniteSets, TLC

\* ------------------------------------------------------------------ bounds

\* Number of lines the hdb stream holds at most.
MaxLines == 2
\* Number of members of the top-level archive at most.
MaxGroups == 2
\* Number of worker processes at most.
MaxJobs == 2
\* Number of times the extractor is iterated at most.
MaxRuns == 2

\* ------------------------------------------------------- program constants

\* Timestamp = Annotated[int, Field(ge=100000000, le=999999999)]
TsMin == 100000000
TsMax == 999999999

VALID_GAME_TYPES ==
    {"holdem", "holdem1", "holdem2", "holdem3", "holdemii", "holdempot",
     "nolimit", "tourney"}

SLASH == "/"

\* ------------------------------------------------------------ input spaces

\* Player names that occur in roster lines and as pdb.<player> members.
Players == {"Jak", "num"}

\* Top-level member names, as tar_in.getnames() may list them.
Names ==
    { <<"IRCdata", "/", "holdem", ".", "199601", ".", "tgz">>,
      <<"holdem", ".", "199601", ".", "tgz">>,
      <<"IRCdata", "/", "bridge", ".", "199601", ".", "tgz">>,
      <<"bridge", ".", "199601", ".", "tgz">>,
      <<"IRCdata">> }

\* The timestamp token of a raw line: just below the range, or one of two
\* timestamps in range.
RawTimestamps == {TsMin - 1, TsMin, TsMin + 1}

\* num_players and position tokens of raw lines.
Counts == {1, 2}
Positions == {1, 2}

\* The participant lists of roster lines: one or two names, one with a repeat.
RosterLists == { <<"Jak">>, <<"num">>, <<"Jak", "num">>, <<"Jak", "Jak">> }

\* Raw lines, after split(): the fields the merge reads.
RawHdb == [ts : RawTimestamps, num_players : Counts]
RawHroster ==
    [blank : {FALSE}, ts : RawTimestamps, num_players : Counts, players : RosterLists]
        \cup { [blank |-> TRUE, ts |-> TsMin, num_players |-> 1, players |-> <<"Jak">>] }
RawPdb == [ts : RawTimestamps, position : Positions]

\* What next() on a member stream does: a line, the end, a truncated container.
ReadOutcomes == {"line", "StopIteration", "EOFError"}

\* What tar.extractfile(name) does with a member name: a regular file, a member
\* that is no file (None), no such member (KeyError), a truncated container.
MemberKinds == {"file", "notfile", "absent", "EOFError"}

Handles == {"file_group", "file_hdb", "file_hroster"} \cup Players

\* ------------------------------------------------------------------- state

VARIABLES
    pc,            \* position in _extract_single_group
    name_group,    \* argument
    folder_group,  \* local
    game_type,     \* local
    file_group, file_hdb, file_hroster,  \* locals: "None" or a handle
    file_pdb,      \* local dict: player -> "None" or handle
    hdb, hroster,  \* locals: the current decoded records
    pdb,           \* local dict: player -> current PdbRecord
    pdb_curr,      \* local dict
    idx,           \* position of the for loop in hroster.players
    hands,         \* local list
    exc,           \* exception in flight, or "none"
    result,        \* the value returned
    opened,        \* handles extractfile has returned in this call
    closed,        \* handle -> number of close() calls
    nread,         \* hdb lines read so far
    hdbSorted,     \* the hdb lines decoded so far have non-decreasing timestamps
    seen,          \* what extractfile found for the hdb and hroster members
    \* __iter__ and its environment
    archive,       \* the member names of the top-level archive, as listed
    content,       \* member index -> what extracting that group comes to
    fname_out,     \* self.fname_out: "None" or the output file name
    n_jobs,        \* self.n_jobs
    artifact,      \* the output file: whether it exists, and its JSON items
    ipc,           \* position of the generator
    mode,          \* "replay" or "compute", as decided at line 502
    run,           \* number of iterations started
    names,         \* local: tar_in.getnames()
    task,          \* task index -> "queued", "running" or "done"
    worker,        \* worker -> the task it runs, 0 when idle
    nxt,           \* index of the next result pool.imap delivers
    iter_hands,    \* local hands of __iter__
    hands_group,   \* local: the result being yielded
    yield_i,       \* position of the for loop at line 523
    pos,           \* number of items read from the output file
    yielded,       \* what this iteration has yielded so far
    prev,          \* the previous iteration: mode, yields, whether drained
    warned,        \* __init__ logged the n_jobs warning
    existed,       \* os.path.isfile(fname_out) when this iteration started
    tar_in,        \* TarFile.open(fname_in) and getnames() calls of this iteration
    handles,       \* worker -> it holds open member handles of its group
    leaked,        \* a worker was terminated while it held open handles
    \* the records of one hdb line and one pdb line, and the hand built of them
    args_hdb,      \* the tokens of the hdb line: split(next(file_hdb))
    args_pdb,      \* the tokens of a pdb line of the same timestamp
    dpc,           \* position: "hdb", "pdb", "build", "emitted", "skipped"
    rec_hdb,       \* HdbRecord(*args_hdb)
    rec_pdb,       \* PdbRecord(*args_pdb)
    hand           \* the dict of lines 447-466

groupVars ==
    <<pc, name_group, folder_group, game_type, file_group, file_hdb, file_hroster,
      file_pdb, hdb, hroster, pdb, pdb_curr, idx, hands, exc, result, opened,
      closed, nread, hdbSorted, seen>>

iterVars ==
    <<archive, content, fname_out, n_jobs, artifact, ipc, mode, run, names, task,
      worker, nxt, iter_hands, hands_group, yield_i, pos, yielded, prev, warned,
      existed, tar_in, handles, leaked>>

decVars == <<args_hdb, args_pdb, dpc, rec_hdb, rec_pdb, hand>>

vars == <<groupVars, iterVars, decVars>>

\* ------------------------------------------------------- string operations

\* s.endswith(".tgz")
EndsWithTgz(s) ==
    /\ Len(s) >= 2
    /\ s[Len(s) - 1] = "."
    /\ s[Len(s)] = "tgz"

\* Index of the last SLASH of s, 0 if there is none.
LastSlash(s) ==
    IF \E i \in 1..Len(s) : s[i] = SLASH
    THEN CHOOSE i \in 1..Len(s) :
            /\ s[i] = SLASH
            /\ \A j \in (i + 1)..Len(s) : s[j] # SLASH
    ELSE 0

\* s.rsplit(SLASH, 1)
RSplitSlash(s) ==
    IF LastSlash(s) = 0
    THEN << s >>
    ELSE << SubSeq(s, 1, LastSlash(s) - 1), SubSeq(s, LastSlash(s) + 1, Len(s)) >>

\* s.split(".", 1)[0]
BeforeFirstDot(s) ==
    IF \E i \in 1..Len(s) : s[i] = "."
    THEN SubSeq(s, 1, (CHOOSE i \in 1..Len(s) :
                          s[i] = "." /\ \A j \in 1..(i - 1) : s[j] # ".") - 1)
    ELSE s

\* s.rstrip(".tgz"): drops the trailing run of the characters . t g z
RECURSIVE RStripTgz(_)
RStripTgz(s) ==
    IF Len(s) > 0 /\ s[Len(s)] \in {".", "tgz"}
    THEN RStripTgz(SubSeq(s, 1, Len(s) - 1))
    ELSE s

\* s.replace(a, b)
Replace(s, a, b) == [i \in 1..Len(s) |-> IF s[i] = a THEN b ELSE s[i]]

\* fname_group.rstrip(".tgz").replace(".", SLASH)
FolderGroup(fname_group) == Replace(RStripTgz(fname_group), ".", SLASH)

\* f"{folder_group}{SLASH}{hdb.timestamp}".replace(SLASH, "_")
HandId(folder, ts) == Replace(folder \o <<SLASH>>, SLASH, "_") \o <<ts>>

\* ---------------------------------------------------------------- decoders

\* Field(ge=100000000, le=999999999)
ValidTimestamp(ts) == ts >= TsMin /\ ts <= TsMax

\* HdbRecord(*args): "ValidationError" or the record.
HdbRecord(raw) ==
    IF ValidTimestamp(raw.ts)
    THEN [err |-> "none", timestamp |-> raw.ts, num_players |-> raw.num_players]
    ELSE [err |-> "ValidationError", timestamp |-> 0, num_players |-> 0]

\* HrosterRecord(*args): args[0] of an empty line raises IndexError; the length
\* of players is not validated against num_players.
HrosterRecord(raw) ==
    IF raw.blank
    THEN [err |-> "IndexError", timestamp |-> 0, num_players |-> 0, players |-> <<>>]
    ELSE IF ValidTimestamp(raw.ts)
    THEN [err |-> "none", timestamp |-> raw.ts, num_players |-> raw.num_players,
          players |-> raw.players]
    ELSE [err |-> "ValidationError", timestamp |-> 0, num_players |-> 0,
          players |-> <<>>]

\* PdbRecord(*args), read from the stream iter_pdb[stream].
PdbRecord(raw, stream) ==
    IF ValidTimestamp(raw.ts)
    THEN [err |-> "none", timestamp |-> raw.ts, position |-> raw.position,
          stream |-> stream]
    ELSE [err |-> "ValidationError", timestamp |-> 0, position |-> 0,
          stream |-> stream]

NoHdb == [err |-> "unset", timestamp |-> 0, num_players |-> 0]
NoHroster == [err |-> "unset", timestamp |-> 0, num_players |-> 0, players |-> <<>>]
EmptyDict == [k \in {} |-> "None"]

\* d[k] = v of a Python dict
DictSet(d, k, v) == [x \in DOMAIN d \cup {k} |-> IF x = k THEN v ELSE d[x]]

\* ------------------------------------------------------------------- Init

GroupStart ==
    /\ pc = "check_name"
    /\ folder_group = <<>>
    /\ game_type = <<>>
    /\ file_group = "None"
    /\ file_hdb = "None"
    /\ file_hroster = "None"
    /\ file_pdb = EmptyDict
    /\ hdb = NoHdb
    /\ hroster = NoHroster
    /\ pdb = EmptyDict
    /\ pdb_curr = EmptyDict
    /\ idx = 0
    /\ hands = <<>>
    /\ exc = "none"
    /\ result = <<>>
    /\ opened = {}
    /\ closed = [h \in Handles |-> 0]
    /\ nread = 0
    /\ hdbSorted = TRUE
    /\ seen = [hdb |-> "unread", hroster |-> "unread"]

NoRun == [mode |-> "none", yielded |-> <<>>, drained |-> FALSE]

\* No TarFile.open(fname_in) yet, by the coordinator or by a worker, and no
\* getnames().
NoOpens == [coordinator |-> 0, workers |-> 0, getnames |-> 0]

\* No line is being decoded.
NoRecord == [err |-> "unset", rec |-> << >>]
DecodeOff ==
    /\ args_hdb = << >>
    /\ args_pdb = << >>
    /\ dpc = "off"
    /\ rec_hdb = NoRecord
    /\ rec_pdb = NoRecord
    /\ hand = << >>

\* The extractor before its first iteration.
IterStart0 ==
    /\ ipc = "idle"
    /\ mode = "none"
    /\ run = 0
    /\ names = <<>>
    /\ task = <<>>
    /\ nxt = 1
    /\ iter_hands = <<>>
    /\ hands_group = <<>>
    /\ yield_i = 0
    /\ pos = 0
    /\ yielded = <<>>
    /\ prev = NoRun
    /\ existed = FALSE
    /\ tar_in = NoOpens
    /\ leaked = FALSE

Init ==
    /\ name_group \in Names
    /\ GroupStart
    /\ archive = <<>>
    /\ content = <<>>
    /\ fname_out = "None"
    /\ n_jobs = 1
    /\ artifact = [exists |-> FALSE, items |-> <<>>]
    /\ worker = [w \in 1..1 |-> 0]
    /\ warned = FALSE
    /\ handles = [w \in 1..1 |-> FALSE]
    /\ IterStart0
    /\ DecodeOff


\* ------------------------------------------------- _extract_single_group

\* game_type not in VALID_GAME_TYPES, for game_type a token sequence
GameTypeValid(gt) == Len(gt) = 1 /\ gt[1] \in VALID_GAME_TYPES

\* Lines 354-366: the name checks made with the top-level archive open.
\* A name without SLASH leaves fname_group unbound: line 363 raises
\* UnboundLocalError, outside any try.
CheckName ==
    /\ pc = "check_name"
    /\ IF ~EndsWithTgz(name_group)
       THEN /\ pc' = "returned"
            /\ UNCHANGED <<exc, folder_group, game_type>>
       ELSE IF Len(RSplitSlash(name_group)) < 2
       THEN /\ pc' = "raised"
            /\ exc' = "UnboundLocalError"
            /\ UNCHANGED <<folder_group, game_type>>
       ELSE /\ game_type' = BeforeFirstDot(RSplitSlash(name_group)[2])
            /\ IF ~GameTypeValid(game_type')
               THEN /\ pc' = "returned"
                    /\ UNCHANGED folder_group
               ELSE /\ folder_group' = FolderGroup(RSplitSlash(name_group)[2])
                    /\ pc' = "extract_group"
            /\ UNCHANGED exc
    /\ result' = <<>>
    /\ UNCHANGED <<name_group, file_group, file_hdb, file_hroster, file_pdb, hdb,
                   hroster, pdb, pdb_curr, idx, hands, opened, closed, nread,
                   hdbSorted, seen>>
    /\ UNCHANGED iterVars
    /\ UNCHANGED decVars

\* Lines 367-374: tar_in.extractfile(name_group) and the nested TarFile.open.
\* name_group comes from getnames(), so the member exists; a member that is no
\* regular file gives None. A nested container that is no tar archive makes
\* TarFile.open raise ReadError, outside the try.
ExtractGroup ==
    /\ pc = "extract_group"
    /\ \E kind \in {"file", "notfile"}, container \in {"tar", "corrupt"} :
          IF kind = "notfile"
          THEN /\ pc' = "returned"
               /\ result' = <<>>
               /\ UNCHANGED <<file_group, opened, exc>>
          ELSE /\ file_group' = "file_group"
               /\ opened' = opened \cup {"file_group"}
               /\ IF container = "corrupt"
                  THEN pc' = "raised" /\ exc' = "ReadError"
                  ELSE pc' = "open_hdb" /\ UNCHANGED exc
               /\ UNCHANGED result
    /\ UNCHANGED <<name_group, folder_group, game_type, file_hdb, file_hroster,
                   file_pdb, hdb, hroster, pdb, pdb_curr, idx, hands, closed,
                   nread, hdbSorted, seen>>
    /\ UNCHANGED iterVars
    /\ UNCHANGED decVars

\* The exception extractfile(name) raises for a member kind, "none" if it returns.
ExtractfileRaises(kind) ==
    CASE kind = "absent" -> "KeyError"
      [] kind = "EOFError" -> "EOFError"
      [] OTHER -> "none"

\* Lines 377-386: the hdb member.
OpenHdb ==
    /\ pc = "open_hdb"
    /\ \E kind \in MemberKinds :
          /\ seen' = [seen EXCEPT !.hdb = kind]
          /\ exc' = ExtractfileRaises(kind)
          /\ IF kind = "file"
             THEN /\ file_hdb' = "file_hdb"
                  /\ opened' = opened \cup {"file_hdb"}
                  /\ pc' = "open_hroster"
             ELSE /\ pc' = "finally"
                  /\ UNCHANGED <<file_hdb, opened>>
    /\ UNCHANGED <<name_group, folder_group, game_type, file_group, file_hroster,
                   file_pdb, hdb, hroster, pdb, pdb_curr, idx, hands, result,
                   closed, nread, hdbSorted>>
    /\ UNCHANGED iterVars
    /\ UNCHANGED decVars

\* Lines 388-395: the hroster member; on None the code closes file_hdb itself
\* and returns, and the finally block then runs.
OpenHroster ==
    /\ pc = "open_hroster"
    /\ \E kind \in MemberKinds :
          /\ seen' = [seen EXCEPT !.hroster = kind]
          /\ exc' = ExtractfileRaises(kind)
          /\ IF kind = "file"
             THEN /\ file_hroster' = "file_hroster"
                  /\ opened' = opened \cup {"file_hroster"}
                  /\ pc' = "open_pdb"
                  /\ UNCHANGED closed
             ELSE /\ pc' = "finally"
                  /\ closed' = IF kind = "notfile"
                               THEN [closed EXCEPT ![file_hdb] = @ + 1]
                               ELSE closed
                  /\ UNCHANGED <<file_hroster, opened>>
    /\ UNCHANGED <<name_group, folder_group, game_type, file_group, file_hdb,
                   file_pdb, hdb, hroster, pdb, pdb_curr, idx, hands, result,
                   nread, hdbSorted>>
    /\ UNCHANGED iterVars
    /\ UNCHANGED decVars

\* Lines 397-409: one extractfile per pdb.<player> member listed by getnames().
\* The None test is on the dict, never true: iter(None) raises TypeError with
\* the members opened before it (before) and the None entry left in file_pdb.
OpenPdb ==
    /\ pc = "open_pdb"
    /\ \E files \in SUBSET Players, fail \in {"none", "EOFError", "TypeError"} :
          IF fail = "none"
          THEN /\ file_pdb' = [p \in files |-> p]
               /\ opened' = opened \cup files
               /\ pc' = "init_pdb"
               /\ UNCHANGED exc
          ELSE \E before \in SUBSET files :
               /\ fail = "TypeError" => before # files
               /\ file_pdb' =
                     IF fail = "TypeError"
                     THEN LET bad == CHOOSE p \in files \ before : TRUE
                          IN  [p \in before \cup {bad} |-> IF p = bad THEN "None" ELSE p]
                     ELSE [p \in before |-> p]
               /\ opened' = opened \cup before
               /\ exc' = fail
               /\ pc' = "finally"
    /\ UNCHANGED <<name_group, folder_group, game_type, file_group, file_hdb,
                   file_hroster, hdb, hroster, pdb, pdb_curr, idx, hands, result,
                   closed, nread, hdbSorted, seen>>
    /\ UNCHANGED iterVars
    /\ UNCHANGED decVars

\* Line 412: the first line of every pdb stream, decoded outside the inner try:
\* a line that fails to decode, an empty stream or a truncated one ends the try
\* block with pdb unbound.
InitPdb ==
    /\ pc = "init_pdb"
    /\ \/ \E first \in [DOMAIN file_pdb -> RawPdb] :
             LET recs == [p \in DOMAIN file_pdb |-> PdbRecord(first[p], p)] IN
             IF \E p \in DOMAIN file_pdb : recs[p].err # "none"
             THEN /\ exc' = "ValidationError"
                  /\ pc' = "finally"
                  /\ UNCHANGED pdb
             ELSE /\ pdb' = recs
                  /\ pc' = "read_hdb"
                  /\ UNCHANGED exc
       \/ /\ DOMAIN file_pdb # {}
          /\ \E e \in {"StopIteration", "EOFError"} : exc' = e
          /\ pc' = "finally"
          /\ UNCHANGED pdb
    /\ UNCHANGED <<name_group, folder_group, game_type, file_group, file_hdb,
                   file_hroster, file_pdb, hdb, hroster, pdb_curr, idx, hands,
                   result, opened, closed, nread, hdbSorted, seen>>
    /\ UNCHANGED iterVars
    /\ UNCHANGED decVars


\* Line 415: hdb = HdbRecord(next(iter_hdb)); a ValidationError is caught at
\* line 469 and the loop goes on with the next hdb line.
ReadHdb ==
    /\ pc = "read_hdb"
    /\ \E outcome \in ReadOutcomes :
          IF outcome = "line"
          THEN /\ nread < MaxLines
               /\ nread' = nread + 1
               /\ \E raw \in RawHdb :
                     IF HdbRecord(raw).err = "none"
                     THEN /\ hdb' = HdbRecord(raw)
                          /\ hdbSorted' = (hdbSorted /\ hdb.timestamp <= raw.ts)
                          /\ pc' = "read_hroster"
                     ELSE /\ pc' = "read_hdb"
                          /\ UNCHANGED <<hdb, hdbSorted>>
               /\ UNCHANGED exc
          ELSE /\ exc' = outcome
               /\ pc' = "finally"
               /\ UNCHANGED <<hdb, hdbSorted, nread>>
    /\ UNCHANGED <<name_group, folder_group, game_type, file_group, file_hdb,
                   file_hroster, file_pdb, hroster, pdb, pdb_curr, idx, hands,
                   result, opened, closed, seen>>
    /\ UNCHANGED iterVars
    /\ UNCHANGED decVars

\* Lines 416-419: one pass of the inner loop: a new hroster line is read for
\* every hdb line, whatever the current hroster record is. A ValidationError
\* is caught at line 469 (next hdb line); an IndexError is not caught.
ReadHroster ==
    /\ pc = "read_hroster"
    /\ \E outcome \in ReadOutcomes :
          IF outcome = "line"
          THEN \E raw \in RawHroster :
                  LET rec == HrosterRecord(raw) IN
                  CASE rec.err = "ValidationError" ->
                          /\ pc' = "read_hdb"
                          /\ UNCHANGED <<hroster, exc>>
                    [] rec.err = "IndexError" ->
                          /\ pc' = "finally"
                          /\ exc' = "IndexError"
                          /\ UNCHANGED hroster
                    [] OTHER ->
                          /\ hroster' = rec
                          /\ pc' = IF rec.timestamp >= hdb.timestamp
                                   THEN "match" ELSE "read_hroster"
                          /\ UNCHANGED exc
          ELSE /\ exc' = outcome
               /\ pc' = "finally"
               /\ UNCHANGED hroster
    /\ UNCHANGED <<name_group, folder_group, game_type, file_group, file_hdb,
                   file_hroster, file_pdb, hdb, pdb, pdb_curr, idx, hands,
                   result, opened, closed, nread, hdbSorted, seen>>
    /\ UNCHANGED iterVars
    /\ UNCHANGED decVars

\* Line 423: assert hdb.num_players == hroster.num_players
CountsAgree(h, r) == h.num_players = r.num_players

\* Lines 420-427: skip when the roster is ahead; the two asserts (an
\* AssertionError is caught by no except clause); pdb_curr = {}.
Match ==
    /\ pc = "match"
    /\ IF hdb.timestamp < hroster.timestamp
       THEN /\ pc' = "read_hdb"
            /\ UNCHANGED <<exc, pdb_curr, idx>>
       ELSE IF ~(hdb.timestamp = hroster.timestamp /\ CountsAgree(hdb, hroster))
       THEN /\ pc' = "finally"
            /\ exc' = "AssertionError"
            /\ UNCHANGED <<pdb_curr, idx>>
       ELSE /\ pdb_curr' = EmptyDict
            /\ idx' = 1
            /\ pc' = "players"
            /\ UNCHANGED exc
    /\ UNCHANGED <<name_group, folder_group, game_type, file_group, file_hdb,
                   file_hroster, file_pdb, hdb, hroster, pdb, hands, result,
                   opened, closed, nread, hdbSorted, seen>>
    /\ UNCHANGED iterVars
    /\ UNCHANGED decVars

\* Lines 428-443: one player of the for loop, up to the next read of its stream.
PlayerLoop ==
    /\ pc = "players"
    /\ IF idx > Len(hroster.players)
       THEN /\ pc' = "emit"
            /\ UNCHANGED <<pdb_curr, idx>>
       ELSE LET player == hroster.players[idx] IN
            IF player \notin DOMAIN pdb
            THEN /\ pc' = "read_hdb"
                 /\ UNCHANGED <<pdb_curr, idx>>
            ELSE IF pdb[player].timestamp < hdb.timestamp
            THEN /\ pc' = "read_pdb"
                 /\ UNCHANGED <<pdb_curr, idx>>
            ELSE IF pdb[player].timestamp > hdb.timestamp
            THEN /\ pc' = "read_hdb"
                 /\ UNCHANGED <<pdb_curr, idx>>
            ELSE /\ pdb_curr' = DictSet(pdb_curr, player, pdb[player])
                 /\ idx' = idx + 1
                 /\ pc' = "players"
    /\ UNCHANGED <<name_group, folder_group, game_type, file_group, file_hdb,
                   file_hroster, file_pdb, hdb, hroster, pdb, hands, exc, result,
                   opened, closed, nread, hdbSorted, seen>>
    /\ UNCHANGED iterVars
    /\ UNCHANGED decVars

\* Line 435: pdb[player] = PdbRecord(next(iter_pdb[player])); a ValidationError
\* is caught at line 469 (next hdb line), the end of the stream at line 473.
ReadPdb ==
    /\ pc = "read_pdb"
    /\ LET player == hroster.players[idx] IN
       \E outcome \in ReadOutcomes :
          IF outcome = "line"
          THEN \E raw \in RawPdb :
                  IF PdbRecord(raw, player).err = "none"
                  THEN /\ pdb' = [pdb EXCEPT ![player] = PdbRecord(raw, player)]
                       /\ pc' = "players"
                       /\ UNCHANGED exc
                  ELSE /\ pc' = "read_hdb"
                       /\ UNCHANGED <<pdb, exc>>
          ELSE /\ exc' = outcome
               /\ pc' = "finally"
               /\ UNCHANGED pdb
    /\ UNCHANGED <<name_group, folder_group, game_type, file_group, file_hdb,
                   file_hroster, file_pdb, hdb, hroster, pdb_curr, idx, hands,
                   result, opened, closed, nread, hdbSorted, seen>>
    /\ UNCHANGED iterVars
    /\ UNCHANGED decVars

\* Lines 454-464: the players mapping of a hand, built from pdb_curr. Each
\* entry keeps the line it was built from (line: the stream and the timestamp).
\* (HandPlayersAll: the mapping built from pdb, every current record.)
HandPlayersAll(curr, all) ==
    [k \in DOMAIN all |->
        [position |-> all[k].position,
         line |-> [stream |-> all[k].stream, timestamp |-> all[k].timestamp]]]
HandPlayers(curr, all) ==
    [k \in DOMAIN curr |->
        [position |-> curr[k].position,
         line |-> [stream |-> curr[k].stream, timestamp |-> curr[k].timestamp]]]

\* Lines 447-466: the hand; roster_timestamp and roster_len are the timestamp
\* and the length of the players list of the hroster record it was matched with.
Hand ==
    [id |-> HandId(folder_group, hdb.timestamp),
     game |-> game_type,
     num_players |-> hdb.num_players,
     players |-> HandPlayers(pdb_curr, pdb),
     roster_timestamp |-> hroster.timestamp,
     roster_len |-> Len(hroster.players)]

\* Line 468: hands.append(hand)  (ListPrepend: hands.insert(0, hand))
ListPrepend(list, x) == <<x>> \o list
ListAppend(list, x) == Append(list, x)

\* Lines 444-468: the two asserts, then the hand is appended.
Emit ==
    /\ pc = "emit"
    /\ IF /\ Len(hroster.players) = Cardinality(DOMAIN pdb_curr)
          /\ \A k \in DOMAIN pdb_curr : pdb_curr[k].timestamp = hdb.timestamp
       THEN /\ hands' = ListAppend(hands, Hand)
            /\ pc' = "read_hdb"
            /\ UNCHANGED exc
       ELSE /\ exc' = "AssertionError"
            /\ pc' = "finally"
            /\ UNCHANGED hands
    /\ UNCHANGED <<name_group, folder_group, game_type, file_group, file_hdb,
                   file_hroster, file_pdb, hdb, hroster, pdb, pdb_curr, idx,
                   result, opened, closed, nread, hdbSorted, seen>>
    /\ UNCHANGED iterVars
    /\ UNCHANGED decVars

\* The handles the finally block closes: those of the list at line 477 that
\* are not None.
ToClose ==
    ({file_group, file_hdb, file_hroster} \cup { file_pdb[p] : p \in DOMAIN file_pdb })
        \ {"None"}

\* How the try statement ends: the return in the finally block (line 480)
\* discards whatever exception is in flight.  (TryExitPropagating: a finally
\* block without the return, which lets an uncaught exception through.)
TryExitPropagating(e) ==
    IF e \in {"none", "EOFError", "StopIteration"} THEN "returned" ELSE "raised"
TryExit(e) == "returned"

\* Lines 471-480: the except clauses and the finally block.
\* A return that loses the hands of a truncated group.
ReturnValueDropsTruncated(e, hs) == IF e = "EOFError" THEN <<>> ELSE hs

\* Line 480: return hands, whatever exception e the try block ended with.
ReturnValue(e, hs) == hs

Finally ==
    /\ pc = "finally"
    /\ closed' = [h \in Handles |-> IF h \in ToClose THEN closed[h] + 1 ELSE closed[h]]
    /\ pc' = TryExit(exc)
    /\ result' = IF pc' = "returned" THEN ReturnValue(exc, hands) ELSE result
    /\ UNCHANGED <<name_group, folder_group, game_type, file_group, file_hdb,
                   file_hroster, file_pdb, hdb, hroster, pdb, pdb_curr, idx, hands,
                   exc, opened, nread, hdbSorted, seen>>
    /\ UNCHANGED iterVars
    /\ UNCHANGED decVars

Next ==
    \/ CheckName
    \/ ExtractGroup
    \/ OpenHdb
    \/ OpenHroster
    \/ OpenPdb
    \/ InitPdb
    \/ ReadHdb
    \/ ReadHroster
    \/ Match
    \/ PlayerLoop
    \/ ReadPdb
    \/ Emit
    \/ Finally

Spec == Init /\ [][Next]_vars


\* ---------------------------------------------------------------- __iter__

\* The member names a top-level archive may list (SpecIter).
ArchiveNames ==
    { <<"IRCdata">>,
      <<"IRCdata", "/", "holdem", ".", "199601", ".", "tgz">>,
      <<"IRCdata", "/", "nolimit", ".", "199601", ".", "tgz">>,
      <<"holdem", ".", "199601", ".", "tgz">> }

\* The listings: up to MaxGroups distinct names, in any order.
Archives ==
    UNION { { a \in [1..n -> ArchiveNames] : \A i, j \in 1..n : i # j => a[i] # a[j] }
            : n \in 0..MaxGroups }

\* A hand of lines 447-466 as __iter__ sees it: a dict it never looks into.
SampleHand(folder, gt, ts) ==
    [id |-> HandId(folder, ts),
     game |-> gt,
     num_players |-> 2,
     players |-> [p \in Players |-> [position |-> IF p = "Jak" THEN 1 ELSE 2]]]

\* The lists the merge of one group may return: none, one hand, two hands,
\* the same hand twice.
GroupHands(folder, gt) ==
    { <<>>,
      << SampleHand(folder, gt, TsMin) >>,
      << SampleHand(folder, gt, TsMin), SampleHand(folder, gt, TsMin + 1) >>,
      << SampleHand(folder, gt, TsMin), SampleHand(folder, gt, TsMin) >> }

\* What _extract_single_group(name, fname_in) may come to, by the name checks
\* of lines 356-366 and, for a group that is opened, by its content.
Outcomes(name) ==
    IF ~EndsWithTgz(name)
    THEN { [raised |-> "none", hands |-> <<>>] }
    ELSE IF Len(RSplitSlash(name)) < 2
    THEN { [raised |-> "UnboundLocalError", hands |-> <<>>] }
    ELSE IF ~GameTypeValid(BeforeFirstDot(RSplitSlash(name)[2]))
    THEN { [raised |-> "none", hands |-> <<>>] }
    ELSE { [raised |-> "ReadError", hands |-> <<>>] }
         \cup { [raised |-> "none", hands |-> hs] :
                  hs \in GroupHands(FolderGroup(RSplitSlash(name)[2]),
                                    BeforeFirstDot(RSplitSlash(name)[2])) }

\* json.dump writes an int as its decimal digits.
RECURSIVE Digits(_)
Digits(n) == IF n < 10 THEN << n >> ELSE Digits(n \div 10) \o << n % 10 >>

\* The int a JSON number parses to.
RECURSIVE FromDigits(_)
FromDigits(ds) ==
    IF Len(ds) = 0 THEN 0
    ELSE FromDigits(SubSeq(ds, 1, Len(ds) - 1)) * 10 + ds[Len(ds)]

\* json.dump of one hand: strings as they are, ints as digits, the players
\* dict as its key/value pairs.
JsonHand(h) ==
    [id |-> h.id,
     game |-> h.game,
     num_players |-> Digits(h.num_players),
     players |-> { << p, [position |-> Digits(h.players[p].position)] >> :
                     p \in DOMAIN h.players }]

\* Line 528: json.dump(hands, f): the items of the top-level array.
JsonDump(hs) == [i \in 1..Len(hs) |-> JsonHand(hs[i])]

\* Line 504: one item of ijson.items(f, "item"), parsed back to a dict.
IjsonItem(j) ==
    [id |-> j.id,
     game |-> j.game,
     num_players |-> FromDigits(j.num_players),
     players |-> [p \in { pr[1] : pr \in j.players } |->
                    [position |->
                        FromDigits((CHOOSE pr \in j.players : pr[1] = p)[2].position)]]]

\* Line 518: hands += hands_group  (AccumulateOverwrite: hands = hands_group)
AccumulateOverwrite(hs, group) == group
Accumulate(hs, group) == hs \o group

\* The pool is alive: the generator is inside "with Pool(...)".
PoolAlive == ipc \in {"pool", "yield"}

NoWorker == [w \in 1..n_jobs |-> 0]
NoHandles == [w \in 1..n_jobs |-> FALSE]

\* Lines 336-338: __init__ warns when the output file exists and n_jobs is
\* not 1; it raises nothing.
InitWarns == fname_out # "None" /\ artifact.exists /\ n_jobs # 1

\* A replay that is chosen for a single job only.
ReplayModeSingleJob == fname_out # "None" /\ artifact.exists /\ n_jobs = 1

\* Line 502: if self.fname_out and os.path.isfile(self.fname_out)
ReplayMode == fname_out # "None" /\ artifact.exists

\* A delivery that hands out the first result again and again.
ImapNextRepeats == IF nxt <= Len(names) THEN 1 ELSE nxt

\* Line 515: pool.imap hands out the results in the order of names: the
\* index of the result the for loop gets next.
ImapNext == nxt

\* A loop that walks the group from its last hand to its first.
YieldItemReversed(group, i) == group[Len(group) + 1 - i]

\* Lines 523-524: for hand in hands_group: yield hand; the i-th hand yielded.
YieldItem(group, i) == group[i]

\* A loop that is left after its first result.
LoopDoneAfterFirst == nxt > 1

\* Line 515: the for loop over pool.imap is exhausted.
LoopDone == nxt > Len(names)

\* Line 354: every call of _extract_single_group opens the top-level archive.
WorkerOpensArchive(t) == [t EXCEPT !.workers = @ + 1]

\* Lines 356-366: the name passes the checks made before the group is opened.
NameAccepted(name) ==
    /\ EndsWithTgz(name)
    /\ Len(RSplitSlash(name)) >= 2
    /\ GameTypeValid(BeforeFirstDot(RSplitSlash(name)[2]))

\* Line 514: leaving "with Pool" terminates the pool; a worker in the middle
\* of a task is killed where it stands, and its finally block never runs.
AbandonedOpen == \E w \in 1..n_jobs : handles[w]

InitIter ==
    /\ name_group = <<>>
    /\ GroupStart
    /\ archive \in Archives
    /\ content \in [1..Len(archive) -> UNION { Outcomes(n) : n \in ArchiveNames }]
    /\ \A i \in 1..Len(archive) : content[i] \in Outcomes(archive[i])
    /\ fname_out \in {"None", "hands.json"}
    /\ n_jobs \in 1..MaxJobs
    /\ artifact \in
          { [exists |-> FALSE, items |-> <<>>],
            [exists |-> TRUE,
             items |-> JsonDump(<< SampleHand(<<"tourney", "/", "199601">>,
                                              <<"tourney">>, TsMin) >>)] }
    /\ worker = NoWorker
    /\ warned = InitWarns
    /\ handles = NoHandles
    /\ IterStart0
    /\ DecodeOff

\* Lines 502 and 508-511: a call of __iter__ runs up to the choice of the mode.
\* prev keeps what the iteration before this one did.
IterStart ==
    /\ ipc \in {"idle", "done", "closed", "raised"}
    /\ run < MaxRuns
    /\ run' = run + 1
    /\ prev' = IF run = 0 THEN NoRun
               ELSE [mode |-> mode, yielded |-> yielded, drained |-> ipc = "done"]
    /\ IF ReplayMode
       THEN mode' = "replay" /\ ipc' = "replay"
       ELSE mode' = "compute" /\ ipc' = "names"
    /\ existed' = artifact.exists
    /\ tar_in' = NoOpens
    /\ handles' = NoHandles
    /\ leaked' = FALSE
    /\ names' = <<>>
    /\ task' = <<>>
    /\ worker' = NoWorker
    /\ nxt' = 1
    /\ iter_hands' = <<>>
    /\ hands_group' = <<>>
    /\ yield_i' = 0
    /\ pos' = 0
    /\ yielded' = <<>>
    /\ UNCHANGED <<archive, content, fname_out, n_jobs, artifact, warned>>
    /\ UNCHANGED groupVars
    /\ UNCHANGED decVars

\* Lines 512-515: the member list is read and the pool gets one task a name.
\* TarFile.open of the top-level archive may fail: the one fatal error.
GetNames ==
    /\ ipc = "names"
    /\ \E ok \in BOOLEAN :
          IF ok
          THEN /\ names' = archive
               /\ task' = [i \in 1..Len(archive) |-> "queued"]
               /\ tar_in' = [tar_in EXCEPT !.coordinator = @ + 1, !.getnames = @ + 1]
               /\ ipc' = "pool"
          ELSE /\ ipc' = "raised"
               /\ UNCHANGED <<names, task, tar_in>>
    /\ UNCHANGED <<archive, content, fname_out, n_jobs, artifact, mode, run, worker,
                   nxt, iter_hands, hands_group, yield_i, pos, yielded, prev,
                   warned, existed, handles, leaked>>
    /\ UNCHANGED groupVars
    /\ UNCHANGED decVars

\* A worker of the pool takes the first task of the queue and enters
\* _extract_single_group, which opens the top-level archive (line 354).
\* The workers are interchangeable: the idle worker of lowest number takes it.
WorkerStart(w) ==
    /\ PoolAlive
    /\ worker[w] = 0
    /\ \A v \in 1..(w - 1) : worker[v] # 0
    /\ \E i \in 1..Len(names) :
          /\ task[i] = "queued"
          /\ \A j \in 1..(i - 1) : task[j] # "queued"
          /\ task' = [task EXCEPT ![i] = "running"]
          /\ worker' = [worker EXCEPT ![w] = i]
    /\ tar_in' = WorkerOpensArchive(tar_in)
    /\ UNCHANGED <<archive, content, fname_out, n_jobs, artifact, ipc, mode, run,
                   names, nxt, iter_hands, hands_group, yield_i, pos, yielded, prev,
                   warned, existed, handles, leaked>>
    /\ UNCHANGED groupVars
    /\ UNCHANGED decVars

\* Lines 367-409: the worker's call has opened the container and members of
\* its group and is inside the try block; only a group whose name is accepted
\* and whose container is readable gets there.
WorkerOpen(w) ==
    /\ PoolAlive
    /\ worker[w] # 0
    /\ ~handles[w]
    /\ NameAccepted(names[worker[w]])
    /\ content[worker[w]].raised = "none"
    /\ handles' = [handles EXCEPT ![w] = TRUE]
    /\ UNCHANGED <<archive, content, fname_out, n_jobs, artifact, ipc, mode, run,
                   names, task, worker, nxt, iter_hands, hands_group, yield_i, pos,
                   yielded, prev, warned, existed, tar_in, leaked>>
    /\ UNCHANGED groupVars
    /\ UNCHANGED decVars

\* Lines 475-494: the worker's _iter_helper call ends; its result, or the
\* exception it raised, is content[task]. A call that returns hands has been
\* through the try block, and its finally block has closed its handles.
WorkerFinish(w) ==
    /\ PoolAlive
    /\ worker[w] # 0
    /\ content[worker[w]].hands # <<>> => handles[w]
    /\ task' = [task EXCEPT ![worker[w]] = "done"]
    /\ worker' = [worker EXCEPT ![w] = 0]
    /\ handles' = [handles EXCEPT ![w] = FALSE]
    /\ UNCHANGED <<archive, content, fname_out, n_jobs, artifact, ipc, mode, run,
                   names, nxt, iter_hands, hands_group, yield_i, pos, yielded, prev,
                   warned, existed, tar_in, leaked>>
    /\ UNCHANGED groupVars
    /\ UNCHANGED decVars

\* Lines 515-522: pool.imap delivers the results in the order of names; an
\* exception of the task is raised again here and leaves the generator, and
\* the with statement terminates the pool.
Receive ==
    /\ ipc = "pool"
    /\ ImapNext <= Len(names)
    /\ task[ImapNext] = "done"
    /\ nxt' = nxt + 1
    /\ IF content[ImapNext].raised # "none"
       THEN /\ ipc' = "raised"
            /\ worker' = NoWorker
            /\ handles' = NoHandles
            /\ leaked' = (leaked \/ AbandonedOpen)
            /\ UNCHANGED <<iter_hands, hands_group, yield_i>>
       ELSE IF content[ImapNext].hands = <<>>
       THEN UNCHANGED <<ipc, worker, iter_hands, hands_group, yield_i, handles,
                        leaked>>
       ELSE /\ iter_hands' = Accumulate(iter_hands, content[ImapNext].hands)
            /\ hands_group' = content[ImapNext].hands
            /\ yield_i' = 1
            /\ ipc' = "yield"
            /\ UNCHANGED <<worker, handles, leaked>>
    /\ UNCHANGED <<archive, content, fname_out, n_jobs, artifact, mode, run, names,
                   task, pos, yielded, prev, warned, existed, tar_in>>
    /\ UNCHANGED groupVars
    /\ UNCHANGED decVars

\* Lines 523-524: one hand of hands_group is yielded.
YieldHand ==
    /\ ipc = "yield"
    /\ yielded' = Append(yielded, YieldItem(hands_group, yield_i))
    /\ IF yield_i < Len(hands_group)
       THEN yield_i' = yield_i + 1 /\ UNCHANGED ipc
       ELSE yield_i' = 0 /\ ipc' = "pool"
    /\ UNCHANGED <<archive, content, fname_out, n_jobs, artifact, mode, run, names,
                   task, worker, nxt, iter_hands, hands_group, pos, prev, warned,
                   existed, tar_in, handles, leaked>>
    /\ UNCHANGED groupVars
    /\ UNCHANGED decVars

\* Lines 525-528: after the last result the pool is left and the accumulated
\* hands are written when an output file is configured.
Save ==
    /\ ipc = "pool"
    /\ LoopDone
    /\ artifact' = IF fname_out # "None"
                   THEN [exists |-> TRUE, items |-> JsonDump(iter_hands)]
                   ELSE artifact
    /\ ipc' = "done"
    /\ worker' = NoWorker
    /\ handles' = NoHandles
    /\ leaked' = (leaked \/ AbandonedOpen)
    /\ UNCHANGED <<archive, content, fname_out, n_jobs, mode, run, names, task, nxt,
                   iter_hands, hands_group, yield_i, pos, yielded, prev, warned,
                   existed, tar_in>>
    /\ UNCHANGED groupVars
    /\ UNCHANGED decVars

\* Lines 503-505: the next item of the output file is yielded, or the file ends.
ReplayYield ==
    /\ ipc = "replay"
    /\ IF pos < Len(artifact.items)
       THEN /\ pos' = pos + 1
            /\ yielded' = Append(yielded, IjsonItem(artifact.items[pos + 1]))
            /\ UNCHANGED ipc
       ELSE /\ ipc' = "done"
            /\ UNCHANGED <<pos, yielded>>
    /\ UNCHANGED <<archive, content, fname_out, n_jobs, artifact, mode, run, names,
                   task, worker, nxt, iter_hands, hands_group, yield_i, prev, warned,
                   existed, tar_in, handles, leaked>>
    /\ UNCHANGED groupVars
    /\ UNCHANGED decVars

\* The consumer stops draining: the generator, suspended at a yield (line 505
\* or 524), is closed; leaving "with Pool" terminates the pool.
ConsumerStop ==
    /\ ipc \in {"pool", "yield", "replay"}
    /\ yielded # <<>>
    /\ ipc' = "closed"
    /\ worker' = NoWorker
    /\ handles' = NoHandles
    /\ leaked' = (leaked \/ AbandonedOpen)
    /\ UNCHANGED <<archive, content, fname_out, n_jobs, artifact, mode, run, names,
                   task, nxt, iter_hands, hands_group, yield_i, pos, yielded, prev,
                   warned, existed, tar_in>>
    /\ UNCHANGED groupVars
    /\ UNCHANGED decVars

NextIter ==
    \/ IterStart
    \/ GetNames
    \/ \E w \in 1..n_jobs : WorkerStart(w)
    \/ \E w \in 1..n_jobs : WorkerOpen(w)
    \/ \E w \in 1..n_jobs : WorkerFinish(w)
    \/ Receive
    \/ YieldHand
    \/ Save
    \/ ReplayYield
    \/ ConsumerStop

SpecIter == InitIter /\ [][NextIter]_vars

\* ------------------------------------------- the records and the hand dict
\* A token of a line is the sequence of its characters; None is << >>, which
\* split() never yields as a token.

None == << >>

STAGES == <<"preflop", "flop", "turn", "river", "showdown">>

DigitChars == <<"0", "1", "2", "3", "4", "5", "6", "7", "8", "9">>

\* the value of a decimal digit character
DigitVal(c) == (CHOOSE i \in 1..Len(DigitChars) : DigitChars[i] = c) - 1

IsDigits(t) ==
    /\ Len(t) > 0
    /\ \A i \in 1..Len(t) : \E d \in 1..Len(DigitChars) : DigitChars[d] = t[i]

\* int(t) for a token of decimal digits
RECURSIVE IntOf(_)
IntOf(t) ==
    IF Len(t) = 0 THEN 0
    ELSE IntOf(SubSeq(t, 1, Len(t) - 1)) * 10 + DigitVal(t[Len(t)])

\* t.split(sep): the parts of t between the occurrences of sep
RECURSIVE Split(_, _)
Split(t, sep) ==
    IF \E i \in 1..Len(t) : t[i] = sep
    THEN LET i == CHOOSE i \in 1..Len(t) :
                     t[i] = sep /\ \A j \in 1..(i - 1) : t[j] # sep
         IN << SubSeq(t, 1, i - 1) >> \o Split(SubSeq(t, i + 1, Len(t)), sep)
    ELSE << t >>

\* Line 225: Timestamp, an int with ge=100000000, le=999999999
TimestampValid(t) == IsDigits(t) /\ ValidTimestamp(IntOf(t))

\* Line 226: Stage, pattern ^[0-9]+\/[0-9]+$
StageValid(t) ==
    LET parts == Split(t, SLASH) IN
    Len(parts) = 2 /\ IsDigits(parts[1]) /\ IsDigits(parts[2])

\* Line 227: Card, pattern ^[1-9,TJQKA][schd]$
CardValid(t) ==
    /\ Len(t) = 2
    /\ t[1] \in {"1", "2", "3", "4", "5", "6", "7", "8", "9", ",",
                 "T", "J", "Q", "K", "A"}
    /\ t[2] \in {"s", "c", "h", "d"}

\* Line 228: Action, pattern ^[BfkbcrAQK-]+$
ActionValid(t) ==
    /\ Len(t) > 0
    /\ \A i \in 1..Len(t) :
          t[i] \in {"B", "f", "k", "b", "c", "r", "A", "Q", "K", "-"}

\* A token is valid for an annotated type.
TypeValid(type, t) ==
    CASE type = "Timestamp" -> TimestampValid(t)
      [] type = "int" -> IsDigits(t)
      [] type = "Stage" -> StageValid(t)
      [] type = "Card" -> CardValid(t)
      [] type = "Action" -> ActionValid(t)
      [] OTHER -> TRUE

\* The value of a field: ints are converted, strings are kept.
TypeValue(type, t) ==
    IF type \in {"Timestamp", "int"} THEN IntOf(t) ELSE t

\* Lines 231-244: the fields of HdbRecord, in order, with their types; the
\* five cards are optional.
HdbFields ==
    <<"timestamp", "dealer", "hand_num", "num_players", "flop", "turn", "river",
      "showdown", "card1", "card2", "card3", "card4", "card5">>
HdbTypes ==
    [timestamp |-> "Timestamp", dealer |-> "int", hand_num |-> "int",
     num_players |-> "int", flop |-> "Stage", turn |-> "Stage", river |-> "Stage",
     showdown |-> "Stage", card1 |-> "Card", card2 |-> "Card", card3 |-> "Card",
     card4 |-> "Card", card5 |-> "Card"]
HdbOptional == {"card1", "card2", "card3", "card4", "card5"}

\* Lines 282-295: the fields of PdbRecord; the two cards are optional.
PdbFields ==
    <<"player", "timestamp", "num_players", "position", "preflop", "flop", "turn",
      "river", "bankroll", "total_bet", "total_win", "card1", "card2">>
PdbTypes ==
    [player |-> "str", timestamp |-> "Timestamp", num_players |-> "int",
     position |-> "int", preflop |-> "Action", flop |-> "Action",
     turn |-> "Action", river |-> "Action", bankroll |-> "int",
     total_bet |-> "int", total_win |-> "int", card1 |-> "Card", card2 |-> "Card"]
PdbOptional == {"card1", "card2"}

\* dict(zip(fields, args)): the i-th field gets the i-th token; tokens beyond
\* the last field are dropped, fields beyond the last token are missing.
ZipDict(fields, args) ==
    LET n == IF Len(fields) < Len(args) THEN Len(fields) ELSE Len(args) IN
    [f \in { fields[i] : i \in 1..n } |->
        args[CHOOSE i \in 1..n : fields[i] = f]]

\* Lines 246-252 and 297-303: super().__init__(**dict(zip(model_fields, args))):
\* a required field that is missing or a token that is not valid for its
\* field raises ValidationError; a missing optional field is None.
ModelInit(fields, types, optional, args) ==
    LET kw == ZipDict(fields, args)
        all == { fields[i] : i \in 1..Len(fields) }
    IN  IF /\ \A f \in all \ optional : f \in DOMAIN kw
           /\ \A f \in DOMAIN kw : TypeValid(types[f], kw[f])
        THEN [err |-> "none",
              rec |-> [f \in all |-> IF f \in DOMAIN kw
                                     THEN TypeValue(types[f], kw[f])
                                     ELSE None]]
        ELSE [err |-> "ValidationError", rec |-> << >>]

\* [c for c in cards if c is not None]
RECURSIVE NotNone(_)
NotNone(cs) ==
    IF Len(cs) = 0 THEN << >>
    ELSE IF cs[1] = None THEN NotNone(Tail(cs))
    ELSE << cs[1] >> \o NotNone(Tail(cs))

\* Lines 254-257: HdbRecord.cards
HdbCards(rec) ==
    NotNone(<< rec.card1, rec.card2, rec.card3, rec.card4, rec.card5 >>)

\* Lines 305-308: PdbRecord.cards
PdbCards(rec) == NotNone(<< rec.card1, rec.card2 >>)

\* stage[0] for the names of STAGES
StageTag(stage) ==
    CASE stage = "preflop" -> "p"
      [] stage = "flop" -> "f"
      [] stage = "turn" -> "t"
      [] stage = "river" -> "r"
      [] stage = "showdown" -> "s"

\* A pot that takes the size for the number of players.
HdbPotSwapped(rec, stage) ==
    LET ns == Split(rec[stage], SLASH) IN
    [num_players |-> IntOf(ns[2]), stage |-> StageTag(stage), size |-> IntOf(ns[1])]

\* Lines 262-264: n, s = getattr(self, stage).split("/") and the pot dict
HdbPot(rec, stage) ==
    LET ns == Split(rec[stage], SLASH) IN
    [num_players |-> IntOf(ns[1]), stage |-> StageTag(stage), size |-> IntOf(ns[2])]

\* Lines 259-265: HdbRecord.pots, one pot for each stage of STAGES[1:]
HdbPots(rec) == [i \in 1..(Len(STAGES) - 1) |-> HdbPot(rec, STAGES[i + 1])]

\* Lines 310-312: PdbRecord.bets, one entry for each stage of STAGES[:-1]
PdbBets(rec) ==
    [i \in 1..(Len(STAGES) - 1) |->
        [actions |-> rec[STAGES[i]], stage |-> StageTag(STAGES[i])]]

\* Lines 455-462: the entry of one player in hand["players"]
PlayerEntry(v) ==
    [total_bet |-> v.total_bet,
     bankroll |-> v.bankroll,
     bets |-> PdbBets(v),
     pocket_cards |-> PdbCards(v),
     position |-> v.position,
     total_win |-> v.total_win]

\* Lines 447-466: the hand dict of an hdb record and the pdb record of one of
\* its players, in a group of folder and game type.
HandDict(folder, gt, h, v) ==
    [id |-> HandId(folder, h.timestamp),
     board |-> HdbCards(h),
     dealer |-> h.dealer,
     game |-> gt,
     hand_num |-> h.hand_num,
     num_players |-> h.num_players,
     players |-> [k \in {v.player} |-> PlayerEntry(v)],
     pots |-> HdbPots(h)]

\* ---- the lines
Tok820830094 == <<"8", "2", "0", "8", "3", "0", "0", "9", "4">>
Qc == <<"Q", "c">>
FourS == <<"4", "s">>
SixS == <<"6", "s">>
FiveD == <<"5", "d">>
FourD == <<"4", "d">>
SevenC == <<"7", "c">>
Ac == <<"A", "c">>

\* timestamp dealer hand_num num_players of the reference line
HdbHead == << Tok820830094, <<"2", "0">>, <<"1", "1", "6", "3">>, <<"2">> >>

\* flop turn river showdown: the reference line; a hand that ends on the
\* flop; numbers with leading zeros; a token without slash.
StageLists ==
    { << <<"2", "/", "2", "0">>, <<"2", "/", "4", "0">>, <<"2", "/", "8", "0">>,
         <<"2", "/", "8", "0">> >>,
      << <<"2", "/", "2", "0">>, <<"1", "/", "2", "0">>, <<"0", "/", "0">>,
         <<"0", "/", "0">> >>,
      << <<"0", "2", "/", "0", "2", "0">>, <<"2", "/", "4", "0">>,
         <<"1", "2", "/", "3", "0", "5">>, <<"1", "/", "9">> >>,
      << <<"2", "/", "2", "0">>, <<"2", "-", "4", "0">>, <<"2", "/", "8", "0">>,
         <<"2", "/", "8", "0">> >> }

\* no to five board cards; a token that is no card
BoardLists ==
    { << >>,
      << Qc, FourS, SixS >>,
      << Qc, FourS, SixS, FiveD >>,
      << Qc, FourS, SixS, FiveD, FourD >>,
      << FourD, FiveD, SixS, FourS, Qc >>,
      << Qc, <<"1", "0", "s">>, SixS >> }

\* the hdb lines; one has lost its showdown token
HdbLines ==
    { HdbHead \o st \o b : st \in StageLists, b \in BoardLists }
    \cup { HdbHead \o << <<"2", "/", "2", "0">>, <<"2", "/", "4", "0">>,
                         <<"2", "/", "8", "0">> >> }

\* preflop flop turn river: Jak of the reference example; a fold on the flop;
\* a fold before the flop; a token that is no action string
ActionLists ==
    { << <<"B", "c">>, <<"k", "c">>, <<"k", "c">>, <<"k">> >>,
      << <<"B", "c">>, <<"f">>, <<"-">>, <<"-">> >>,
      << <<"f">>, <<"-">>, <<"-">>, <<"-">> >>,
      << <<"B", "r">>, <<"b">>, <<"b", "c">>, <<"c", "f">> >>,
      << <<"B", "x">>, <<"k">>, <<"k">>, <<"k">> >> }

\* no pocket cards, two, one, a token that is no card
PocketLists ==
    { << >>, << SevenC, Ac >>, << SevenC >>, << SevenC, <<"A", "x">> >> }

\* player timestamp num_players position, the actions, bankroll total_bet
\* total_win, the cards
PdbLines ==
    { << <<"J", "a", "k">>, Tok820830094, <<"2">>, <<"1">> >> \o a
        \o << <<"8", "5", "0">>, <<"4", "0">>, <<"8", "0">> >> \o c
      : a \in ActionLists, c \in PocketLists }

DecodeFolder == <<"holdem", "/", "199601">>

InitDecode ==
    /\ name_group = << >>
    /\ GroupStart
    /\ archive = <<>>
    /\ content = <<>>
    /\ fname_out = "None"
    /\ n_jobs = 1
    /\ artifact = [exists |-> FALSE, items |-> <<>>]
    /\ worker = [w \in 1..1 |-> 0]
    /\ warned = FALSE
    /\ handles = [w \in 1..1 |-> FALSE]
    /\ IterStart0
    /\ args_hdb \in HdbLines
    /\ args_pdb \in PdbLines
    /\ dpc = "hdb"
    /\ rec_hdb = NoRecord
    /\ rec_pdb = NoRecord
    /\ hand = << >>

\* Line 415: hdb = HdbRecord(*split(next(file_hdb)))
DecodeHdb ==
    /\ dpc = "hdb"
    /\ rec_hdb' = ModelInit(HdbFields, HdbTypes, HdbOptional, args_hdb)
    /\ dpc' = IF rec_hdb'.err = "none" THEN "pdb" ELSE "skipped"
    /\ UNCHANGED <<args_hdb, args_pdb, rec_pdb, hand>>
    /\ UNCHANGED <<groupVars, iterVars>>

\* Line 435: pdb[player] = PdbRecord(*split(next(file_pdb[player])))
DecodePdb ==
    /\ dpc = "pdb"
    /\ rec_pdb' = ModelInit(PdbFields, PdbTypes, PdbOptional, args_pdb)
    /\ dpc' = IF rec_pdb'.err = "none" THEN "build" ELSE "skipped"
    /\ UNCHANGED <<args_hdb, args_pdb, rec_hdb, hand>>
    /\ UNCHANGED <<groupVars, iterVars>>

\* Lines 447-468: the hand is built and appended.
BuildHand ==
    /\ dpc = "build"
    /\ hand' = HandDict(DecodeFolder, <<"holdem">>, rec_hdb.rec, rec_pdb.rec)
    /\ dpc' = "emitted"
    /\ UNCHANGED <<args_hdb, args_pdb, rec_hdb, rec_pdb>>
    /\ UNCHANGED <<groupVars, iterVars>>

NextDecode ==
    \/ DecodeHdb
    \/ DecodePdb
    \/ BuildHand

SpecDecode == InitDecode /\ [][NextDecode]_vars

\* ------------------------------------------------------------ properties

Returned == pc = "returned"
Ended == pc \in {"returned", "raised"}

\* The timestamp of the hdb line a hand was built from: the last part of _id.
HandTimestamp(h) == h.id[Len(h.id)]

\* The hands emitted so far.
Emitted == { hands[i] : i \in 1..Len(hands) }

\* C1: for every emitted hand, num_players equals the number of entries of its
\* players mapping and the length of the players list of the roster line it
\* was matched with.
C1_CountsEqual ==
    \A h \in Emitted :
        /\ h.num_players = Cardinality(DOMAIN h.players)
        /\ h.num_players = h.roster_len

\* C2: for every emitted hand, the positions of its players are pairwise
\* distinct and are exactly the positions 1..num_players. (Stated for the hands
\* that have num_players players, so that a violation is one of the positions
\* alone and not of the count of C1.)
C2_PositionsPermutation ==
    \A h \in Emitted :
      h.num_players = Cardinality(DOMAIN h.players) =>
        /\ \A k1, k2 \in DOMAIN h.players :
              k1 # k2 => h.players[k1].position # h.players[k2].position
        /\ { h.players[k].position : k \in DOMAIN h.players } = 1..h.num_players

\* C3: for every emitted hand, each players entry is built from a line of that
\* player's own pdb stream whose timestamp is the timestamp of the hdb line of
\* the hand, which is also the timestamp of the matched hroster line.
C3_NoCrossTimestamp ==
    \A h \in Emitted :
        /\ h.roster_timestamp = HandTimestamp(h)
        /\ \A k \in DOMAIN h.players :
              /\ h.players[k].line.stream = k
              /\ h.players[k].line.timestamp = HandTimestamp(h)

\* A hand with two players has been emitted and the call has returned it.
C3_Witness ==
    /\ Returned
    /\ \E i \in 1..Len(result) : Cardinality(DOMAIN result[i].players) = 2

\* C4: when the hdb lines decoded so far have non-decreasing timestamps, the
\* timestamps of the emitted hands are non-decreasing in emission order.
C4_Monotone ==
    hdbSorted =>
        \A i, j \in 1..Len(hands) :
            i < j => HandTimestamp(hands[i]) <= HandTimestamp(hands[j])

\* Two hands with increasing timestamps have been returned.
C4_Witness ==
    /\ Returned
    /\ hdbSorted
    /\ Len(result) = 2
    /\ HandTimestamp(result[1]) < HandTimestamp(result[2])

\* Number of times x occurs in the sequence q.
Count(q, x) == Cardinality({ i \in 1..Len(q) : q[i] = x })

\* The sequences a and b hold the same records, each as often.
SameRecords(a, b) ==
    \A x \in { a[i] : i \in 1..Len(a) } \cup { b[i] : i \in 1..Len(b) } :
        Count(a, x) = Count(b, x)

\* This iteration replayed the output file that the iteration before it, a
\* compute-mode iteration that was drained, has written.
ReplayOfDrainedCompute ==
    /\ ipc = "done"
    /\ mode = "replay"
    /\ prev.mode = "compute"
    /\ prev.drained

\* C5: a replay of the output file written by a drained compute-mode iteration
\* yields the records that iteration yielded, each as often.
C5_ReplayEquivalence ==
    ReplayOfDrainedCompute => SameRecords(yielded, prev.yielded)

\* A replay of a computation of two groups, one of which repeats a hand.
C5_Witness ==
    /\ ReplayOfDrainedCompute
    /\ Len(yielded) >= 3
    /\ \E i, j \in 1..Len(yielded) : yielded[i].game # yielded[j].game

\* C6: when the hroster member is absent from the nested container, the call
\* does not raise, and it returns no hand with file_hdb closed.
C6_RosterAbsent ==
    seen.hroster = "absent" =>
        /\ pc # "raised"
        /\ seen.hdb = "file"
        /\ Returned => (result = <<>> /\ closed["file_hdb"] = 1)

\* The call has returned from a container without hroster member.
C6_Witness == seen.hroster = "absent" /\ Returned /\ "file_hdb" \in opened

\* C7: when the call ends, every handle it opened has been closed exactly once.
C7_ClosedExactlyOnce ==
    Ended => \A h \in opened : closed[h] = 1

\* C8: the extraction of a group never raises to its caller.
C8_NeverRaises == pc # "raised"

\* The category tag of a group name: the part of its last path component
\* before the first dot.
CategoryTag(name) == BeforeFirstDot(RSplitSlash(name)[Len(RSplitSlash(name))])

\* C9: for a group name whose category tag is not a known game type, the call
\* returns an empty list, raises nothing and opens no member.
C9_UnknownCategory ==
    (Ended /\ ~GameTypeValid(CategoryTag(name_group))) =>
        (Returned /\ result = <<>> /\ opened = {})

\* C10: when the hdb line and the hroster line of one timestamp disagree on
\* num_players, the merge goes on with the next hdb line.
C10_MismatchSkipsOne ==
    [][(/\ pc = "match"
        /\ hdb.timestamp = hroster.timestamp
        /\ ~CountsAgree(hdb, hroster)) => pc' = "read_hdb"]_vars

\* C11: a roster line or a participant line that fails to decode while its
\* cursor is advanced is dropped and the same cursor keeps advancing toward the
\* same hdb timestamp: a step of the roster advance or of a participant
\* advance never gives up the current hdb line for the next one.
C11_DecodeFailureKeepsAdvancing ==
    [][(pc \in {"read_hroster", "read_pdb"}) => (pc' # "read_hdb")]_vars

\* C12: when a read in the middle of the merge ends with a truncation error,
\* the processing of the group stops and the call returns, without raising,
\* exactly the hands emitted before the truncation, in emission order.
C12_TruncationReturnsEmitted ==
    exc = "EOFError" =>
        /\ pc \in {"finally", "returned"}
        /\ Returned => result = hands

\* The call has returned after a truncation that followed an emitted hand.
C12_Witness == exc = "EOFError" /\ Returned /\ Len(result) >= 1

\* The hands of the first n groups of the archive, in the order of the listing.
RECURSIVE GroupsHands(_)
GroupsHands(n) == IF n = 0 THEN <<>> ELSE GroupsHands(n - 1) \o content[n].hands

\* C13: results are yielded in completion order, not input order: whenever
\* a group that has finished has records not yet yielded, the coordinator can
\* take a result: it does not wait for a group enumerated earlier.
C13_CompletionOrder ==
    (/\ mode = "compute"
     /\ ipc = "pool"
     /\ \E j \in nxt..Len(names) : task[j] = "done" /\ content[j].hands # <<>>)
    => ENABLED Receive

\* An iteration that started with the configured output file in place.
StartedWithArtifact == run > 0 /\ fname_out # "None" /\ existed

\* C14: an iteration that starts with the configured output file in place is
\* a replay, for every n_jobs: it yields the items of the file and nothing
\* else, starts no worker, opens no archive, raises nothing and never
\* rewrites the file.
C14_ReplayWhenArtifactExists ==
    /\ [](StartedWithArtifact =>
            /\ mode = "replay"
            /\ ipc \in {"replay", "done", "closed"}
            /\ tar_in = NoOpens
            /\ names = <<>> /\ task = <<>>
            /\ \A w \in 1..n_jobs : worker[w] = 0 /\ ~handles[w]
            /\ yielded = [i \in 1..pos |-> IjsonItem(artifact.items[i])])
    /\ [][mode = "replay" => artifact' = artifact]_vars

\* A replay with two jobs, after the warning of __init__, has been drained.
C14_Witness ==
    /\ StartedWithArtifact
    /\ n_jobs = 2
    /\ warned
    /\ ipc = "done"
    /\ Len(yielded) = 1

\* C15: in compute mode the output file is written only after the hands of
\* every group have been yielded, and then it holds exactly the hands
\* yielded, in the order of the yields; while the iteration is under way, and
\* after the consumer has stopped it, no output file exists.
C15_SaveAfterAllYields ==
    /\ []((/\ mode = "compute"
           /\ fname_out # "None"
           /\ ipc \in {"names", "pool", "yield", "closed", "raised"})
          => ~artifact.exists)
    /\ [][artifact' # artifact =>
            /\ mode = "compute"
            /\ nxt > Len(names)
            /\ yielded = GroupsHands(Len(names))
            /\ artifact' = [exists |-> TRUE, items |-> JsonDump(yielded)]]_vars

\* The output file has been written after the hands of two groups.
C15_Witness ==
    /\ mode = "compute"
    /\ ipc = "done"
    /\ fname_out # "None"
    /\ Len(names) = 2
    /\ content[1].hands # <<>>
    /\ content[2].hands # <<>>
    /\ artifact.items = JsonDump(yielded)

\* C16: in a compute iteration the top-level archive is opened once, by the
\* coordinator, its member list is read once, and no worker opens it.
C16_OpenedOnce ==
    mode = "compute" =>
        /\ tar_in.coordinator <= 1
        /\ tar_in.getnames <= 1
        /\ tar_in.workers = 0

\* C17: when the consumer stops draining, every handle a worker has opened
\* is closed by its finally block before the worker ends: the stop terminates
\* no worker that still holds open handles.
C17_HandlesReleased ==
    [][(ipc # "closed" /\ ipc' = "closed") => ~leaked']_vars

\* The tokens of the pdb line: the four action strings, and what follows
\* total_win.
ActionTokens == SubSeq(args_pdb, 5, 8)
CardTokens(args, fields, optional) ==
    SubSeq(args, Len(fields) - Cardinality(optional) + 1, Len(args))

\* The action strings show a fold.
Folded == \E i \in 1..Len(ActionTokens) :
             \E j \in 1..Len(ActionTokens[i]) : ActionTokens[i][j] = "f"

\* C18: a player whose action strings show a fold has an empty pocket_cards
\* list in the emitted hand, whatever tokens follow total_win on its line.
C18_FoldedNoPocketCards ==
    (dpc = "emitted" /\ Folded) =>
        \A k \in DOMAIN hand.players : hand.players[k].pocket_cards = << >>

\* The i-th of the four ratio tokens of the hdb line.
RatioToken(i) == args_hdb[4 + i]

\* the position of the slash in a ratio token
SlashAt(t) == CHOOSE k \in 1..Len(t) : t[k] = SLASH

\* C19: the pots of an emitted hand are four, tagged f, t, r, s in this
\* order, the i-th with the integers before and after the slash of the i-th
\* ratio token as num_players and size; the board is the card tokens of the
\* hdb line in their order.
C19_PotsAndBoard ==
    dpc = "emitted" =>
        /\ Len(hand.pots) = 4
        /\ \A i \in 1..4 :
              LET t == RatioToken(i) IN
              /\ hand.pots[i].stage = <<"f", "t", "r", "s">>[i]
              /\ hand.pots[i].num_players = IntOf(SubSeq(t, 1, SlashAt(t) - 1))
              /\ hand.pots[i].size = IntOf(SubSeq(t, SlashAt(t) + 1, Len(t)))
        /\ hand.board = CardTokens(args_hdb, HdbFields, HdbOptional)

\* The hand of the reference hdb line has been emitted: pots of sizes 20,
\* 40, 80, 80 for 2 players each and the board Qc 4s 6s 5d 4d.
C19_Witness ==
    /\ dpc = "emitted"
    /\ hand.board = << Qc, FourS, SixS, FiveD, FourD >>
    /\ hand.pots = << [num_players |-> 2, stage |-> "f", size |-> 20],
                      [num_players |-> 2, stage |-> "t", size |-> 40],
                      [num_players |-> 2, stage |-> "r", size |-> 80],
                      [num_players |-> 2, stage |-> "s", size |-> 80] >>

\* C20: advancing the roster cursor consumes no line when its current record
\* already has a timestamp at or after the hdb timestamp: that record goes
\* to the comparison with the hdb line unchanged.
C20_OvershotRosterKept ==
    [][(/\ pc = "read_hroster"
        /\ hroster.err = "none"
        /\ hroster.timestamp >= hdb.timestamp)
       => (pc' = "match" /\ hroster' = hroster)]_vars

\* C21: when the stream of a rostered player is exhausted before it reaches
\* the hdb timestamp, only the current hand is abandoned: the merge goes on
\* with the next hdb line.
C21_ExhaustedStreamSkipsOne ==
    [][(pc = "read_pdb" /\ exc' = "StopIteration") => (pc' = "read_hdb")]_vars

\* C22: a first line of a player's stream that is malformed or absent does
\* not block the group: the merge starts reading hdb lines all the same.
C22_FirstLineDoesNotBlock ==
    [][(pc = "init_pdb" /\ exc' \in {"ValidationError", "StopIteration"})
       => (pc' = "read_hdb")]_vars

\* The hand agrees with its roster line on the number of players.
CountsMatch(h) ==
    h.num_players = h.roster_len /\ h.num_players = Cardinality(DOMAIN h.players)

\* C23: for hdb lines of non-decreasing timestamps, the ids of the hands
\* emitted for a group are pairwise distinct (stated for the hands whose
\* counts agree with their roster line).
C23_DistinctIds ==
    hdbSorted =>
        \A i, j \in 1..Len(hands) :
            (i # j /\ CountsMatch(hands[i]) /\ CountsMatch(hands[j]))
                => hands[i].id # hands[j].id

\* The group of a hand: its id without the timestamp.
GroupOf(h) == SubSeq(h.id, 1, Len(h.id) - 1)

\* The hands of yielded that belong to the group of hand h, in their order.
YieldedOf(h) == SelectSeq(yielded, LAMBDA y : GroupOf(y) = GroupOf(h))

\* C24: in compute mode the hands of one group are yielded contiguously and
\* in the order of that group's result: between two hands of one group no
\* hand of another group is yielded, and the hands yielded of a group are
\* the first ones of its result.
C24_GroupsContiguous ==
    mode = "compute" =>
        /\ \A i, j, k \in 1..Len(yielded) :
              (i < j /\ j < k /\ GroupOf(yielded[i]) = GroupOf(yielded[k]))
                  => GroupOf(yielded[j]) = GroupOf(yielded[i])
        /\ \A g \in 1..Len(names) :
              content[g].hands # <<>> =>
                  LET ys == YieldedOf(content[g].hands[1]) IN
                  /\ Len(ys) <= Len(content[g].hands)
                  /\ ys = SubSeq(content[g].hands, 1, Len(ys))

\* The second hand of a group is about to be yielded while the result of
\* another group is ready.
C24_Witness ==
    /\ ipc = "yield"
    /\ yield_i = 2
    /\ Len(yielded) = 1
    /\ \E j \in nxt..Len(names) : task[j] = "done" /\ content[j].hands # <<>>

\* C25: in a drained compute iteration every name of the listing has gone to
\* one extraction task, which ran once, and the hands yielded are the hands
\* of the results of all groups, each as often.
C25_NothingLostOrRepeated ==
    (mode = "compute" /\ ipc = "done") =>
        /\ names = archive
        /\ Len(task) = Len(names)
        /\ \A i \in 1..Len(task) : task[i] = "done"
        /\ tar_in.workers = Len(names)
        /\ SameRecords(yielded, GroupsHands(Len(names)))

\* Two jobs have drained two groups with hands.
C25_Witness ==
    /\ mode = "compute"
    /\ ipc = "done"
    /\ n_jobs = 2
    /\ Len(names) = 2
    /\ content[1].hands # <<>>
    /\ content[2].hands # <<>>
    /\ Len(yielded) >= 3

====
